---- MODULE Spec2Model ----
(***************************************************************************)
(* Model of the MCP3426/3427/3428 driver (src/mcp3428.py): the handle's    *)
(* decode mask self.msk, the configuration call set() and the sample read  *)
(* get_raw_data(), run by callers that share one handle and one I2C bus.   *)
(* Each caller executes the statements of a call one bus-visible step at a *)
(* time, so that calls of different callers interleave.                    *)
(***************************************************************************)
EXTENDS Integers, Sequences, FiniteSets, TLC

(* ---------------------------------------------------------------------- *)
(* Bounds and input sets                                                   *)
(* ---------------------------------------------------------------------- *)
MaxSps == 4
MaxPga == 9

Threads == {1, 2}
CmodeVals == {0, 1, 2}
RdyVals == {0, 1, 3}
ChVals == {0, 1, 2, 3, 5}
SetArgs == [cmode : CmodeVals, rdy : RdyVals, ch : ChVals,
            sps : 0 .. MaxSps, pga : 0 .. MaxPga]
Byte == 0 .. 255
LowBytes == {0, 1, 255}
ConcArgs == [cmode : {0}, rdy : {1}, ch : {0}, sps : {0, 1, 2}, pga : {1}]
ConcHigh == {7, 248}
ConcLow == {255}

None == -1
NoArgs == [cmode |-> None, rdy |-> None, ch |-> None, sps |-> None, pga |-> None]
NoRet == 99999
Unbound == << >>

VARIABLES msk, lockOwner, busy, thr, lastSps, devSps, wfailed
vars == <<msk, lockOwner, busy, thr, lastSps, devSps, wfailed>>

(* ---------------------------------------------------------------------- *)
(* Integer operators of the source, computed bit by bit                    *)
(* ---------------------------------------------------------------------- *)
RECURSIVE BitAnd(_, _)
BitAnd(x, y) ==
  IF x = 0 \/ y = 0 THEN 0
  ELSE (x % 2) * (y % 2) + 2 * BitAnd(x \div 2, y \div 2)

RECURSIVE BitOr(_, _)
BitOr(x, y) ==
  IF x = 0 THEN y
  ELSE IF y = 0 THEN x
  ELSE (IF x % 2 = 1 \/ y % 2 = 1 THEN 1 ELSE 0) + 2 * BitOr(x \div 2, y \div 2)

Shl(x, n) == x * 2 ^ n
Shr(x, n) == x \div 2 ^ n

(* ---------------------------------------------------------------------- *)
(* set(): normalisation, mask selection, command byte                      *)
(* ---------------------------------------------------------------------- *)
PgaSelNoCheck(pga) == IF pga <= 4 THEN Shr(pga, 1) ELSE 3
PgaSel(pga) ==
  LET p == IF pga \notin {1, 2, 4, 8} THEN 1 ELSE pga
  IN  IF p <= 4 THEN Shr(p, 1) ELSE 3

NormSpsLowBit(sps) == BitAnd(sps, 1)
NormSps(sps) == BitAnd(sps, 3)

MaskOfNoFallback(s) == Shl(1, 3 + 2 * s) - 1
MaskOf(s) == IF s = 0 THEN 7 ELSE IF s = 1 THEN 31 ELSE 127

SpsField(s) == IF s = 0 THEN 0 ELSE IF s = 1 THEN 1 ELSE 2

CmdByte(a) ==
  LET cmode == BitAnd(a.cmode, 1)
      rdy   == BitAnd(a.rdy, 1)
      ch    == BitAnd(a.ch, 3)
      sps   == SpsField(NormSps(a.sps))
      pga   == PgaSel(a.pga)
  IN  BitOr(BitOr(BitOr(BitOr(Shl(rdy, 7), Shl(ch, 5)), Shl(cmode, 4)),
                  Shl(sps, 2)), pga)

(* ---------------------------------------------------------------------- *)
(* get_raw_data(): decoding of the two received bytes                      *)
(* ---------------------------------------------------------------------- *)
DecodeNoMask(m, b0, b1) ==
  LET raw == BitOr(Shl(b0, 8), b1)
  IN  IF Shr(b0, 7) # 0 THEN raw - BitOr(Shl(m, 8), 255) - 1 ELSE raw
DecodeSignInMask(m, b0, b1) ==
  LET raw == BitOr(Shl(BitAnd(b0, m), 8), b1)
  IN  IF BitAnd(b0, m + 1) # 0 THEN raw - BitOr(Shl(m, 8), 255) - 1 ELSE raw
Decode(m, b0, b1) ==
  LET raw == BitOr(Shl(BitAnd(b0, m), 8), b1)
  IN  IF Shr(b0, 7) # 0 THEN raw - BitOr(Shl(m, 8), 255) - 1 ELSE raw

(* ---------------------------------------------------------------------- *)
(* State                                                                   *)
(* ---------------------------------------------------------------------- *)
IdleRec == [pc |-> "idle", args |-> NoArgs, cmd |-> None, r |-> Unbound,
            ret |-> NoRet, err |-> FALSE, failed |-> FALSE, wrote |-> None,
            usedMsk |-> None, nlock |-> 0, ntx |-> 0]

Init ==
  /\ msk = 7
  /\ lockOwner = 0
  /\ busy = {}
  /\ thr = [t \in Threads |-> IdleRec]
  /\ lastSps = None
  /\ devSps = None
  /\ wfailed = FALSE

(* set(), lines 112-131: normalise the arguments, store the mask, build cmd *)
SetEnterKeepMsk(t, a) ==
  /\ thr[t].pc = "idle"
  /\ thr' = [thr EXCEPT ![t] = [@ EXCEPT !.pc = "set_lock", !.args = a,
                                        !.cmd = CmdByte(a)]]
  /\ lastSps' = a.sps
  /\ UNCHANGED <<msk, lockOwner, busy, devSps, wfailed>>
SetEnter(t, a) ==
  /\ thr[t].pc = "idle"
  /\ msk' = MaskOf(NormSps(a.sps))
  /\ thr' = [thr EXCEPT ![t] = [@ EXCEPT !.pc = "set_lock", !.args = a,
                                        !.cmd = CmdByte(a)]]
  /\ lastSps' = a.sps
  /\ UNCHANGED <<lockOwner, busy, devSps, wfailed>>

(* set(), line 133: self.lock() blocks until the bus lock is free *)
SetLock(t) ==
  /\ thr[t].pc = "set_lock"
  /\ lockOwner = 0
  /\ lockOwner' = t
  /\ thr' = [thr EXCEPT ![t] = [@ EXCEPT !.pc = "set_write", !.nlock = @ + 1]]
  /\ UNCHANGED <<msk, busy, lastSps, devSps, wfailed>>

(* set(), line 135: self.write(cmd) starts the bus transaction *)
SetWriteBegin(t) ==
  /\ thr[t].pc = "set_write"
  /\ busy' = busy \cup {t}
  /\ thr' = [thr EXCEPT ![t] = [@ EXCEPT !.pc = "set_writing",
                                        !.wrote = thr[t].cmd, !.ntx = @ + 1]]
  /\ UNCHANGED <<msk, lockOwner, lastSps, devSps, wfailed>>

(* set(), line 135: the write completes, the device latches the command *)
SetWriteOk(t) ==
  /\ thr[t].pc = "set_writing"
  /\ busy' = busy \ {t}
  /\ devSps' = BitAnd(Shr(thr[t].wrote, 2), 3)
  /\ thr' = [thr EXCEPT ![t] = [@ EXCEPT !.pc = "set_unlock"]]
  /\ UNCHANGED <<msk, lockOwner, lastSps, wfailed>>

(* set(), lines 136-137: the write raises, the exception is printed *)
SetWriteFailRaise(t) ==
  /\ thr[t].pc = "set_writing"
  /\ busy' = busy \ {t}
  /\ wfailed' = TRUE
  /\ thr' = [thr EXCEPT ![t] = [@ EXCEPT !.pc = "set_done", !.failed = TRUE,
                                        !.err = TRUE]]
  /\ UNCHANGED <<msk, lockOwner, lastSps, devSps>>
SetWriteFail(t) ==
  /\ thr[t].pc = "set_writing"
  /\ busy' = busy \ {t}
  /\ wfailed' = TRUE
  /\ thr' = [thr EXCEPT ![t] = [@ EXCEPT !.pc = "set_unlock", !.failed = TRUE]]
  /\ UNCHANGED <<msk, lockOwner, lastSps, devSps>>

(* set(), lines 138-139: self.unlock(); return cmd *)
SetUnlock(t) ==
  /\ thr[t].pc = "set_unlock"
  /\ lockOwner' = IF lockOwner = t THEN 0 ELSE lockOwner
  /\ thr' = [thr EXCEPT ![t] = [@ EXCEPT !.pc = "set_done", !.ret = thr[t].cmd]]
  /\ UNCHANGED <<msk, busy, lastSps, devSps, wfailed>>

(* get_raw_data(), line 158: self.lock() *)
GetLock(t) ==
  /\ thr[t].pc = "idle"
  /\ lockOwner = 0
  /\ lockOwner' = t
  /\ thr' = [thr EXCEPT ![t] = [@ EXCEPT !.pc = "get_read", !.nlock = @ + 1]]
  /\ UNCHANGED <<msk, busy, lastSps, devSps, wfailed>>

(* get_raw_data(), line 160: self.read(2, timeout=500) starts *)
GetReadBegin(t) ==
  /\ thr[t].pc = "get_read"
  /\ busy' = busy \cup {t}
  /\ thr' = [thr EXCEPT ![t] = [@ EXCEPT !.pc = "get_reading", !.ntx = @ + 1]]
  /\ UNCHANGED <<msk, lockOwner, lastSps, devSps, wfailed>>

(* get_raw_data(), line 160: the read delivers two bytes, bound to r *)
GetReadOk(t, b0, b1) ==
  /\ thr[t].pc = "get_reading"
  /\ busy' = busy \ {t}
  /\ thr' = [thr EXCEPT ![t] = [@ EXCEPT !.pc = "get_unlock", !.r = <<b0, b1>>]]
  /\ UNCHANGED <<msk, lockOwner, lastSps, devSps, wfailed>>

(* get_raw_data(), lines 161-162: the read raises or times out; the        *)
(* exception is printed and r is never bound                               *)
GetReadFailNoUnlock(t) ==
  /\ thr[t].pc = "get_reading"
  /\ busy' = busy \ {t}
  /\ thr' = [thr EXCEPT ![t] = [@ EXCEPT !.pc = "get_decode", !.failed = TRUE]]
  /\ UNCHANGED <<msk, lockOwner, lastSps, devSps, wfailed>>
GetReadFail(t) ==
  /\ thr[t].pc = "get_reading"
  /\ busy' = busy \ {t}
  /\ thr' = [thr EXCEPT ![t] = [@ EXCEPT !.pc = "get_unlock", !.failed = TRUE]]
  /\ UNCHANGED <<msk, lockOwner, lastSps, devSps, wfailed>>

(* get_raw_data(), line 163: self.unlock() *)
GetUnlock(t) ==
  /\ thr[t].pc = "get_unlock"
  /\ lockOwner' = IF lockOwner = t THEN 0 ELSE lockOwner
  /\ thr' = [thr EXCEPT ![t] = [@ EXCEPT !.pc = "get_decode"]]
  /\ UNCHANGED <<msk, busy, lastSps, devSps, wfailed>>

(* get_raw_data(), lines 165-171: decode r with self.msk and return; when  *)
(* r was never bound, reading r[0] raises and the call ends with an error  *)
GetDecodeDefaultMask(t) ==
  /\ thr[t].pc = "get_decode"
  /\ thr' = [thr EXCEPT ![t] =
       IF thr[t].r = Unbound
       THEN [@ EXCEPT !.pc = "get_done", !.err = TRUE]
       ELSE [@ EXCEPT !.pc = "get_done", !.usedMsk = 7,
                      !.ret = Decode(7, thr[t].r[1], thr[t].r[2])]]
  /\ UNCHANGED <<msk, lockOwner, busy, lastSps, devSps, wfailed>>
GetDecode(t) ==
  /\ thr[t].pc = "get_decode"
  /\ thr' = [thr EXCEPT ![t] =
       IF thr[t].r = Unbound
       THEN [@ EXCEPT !.pc = "get_done", !.err = TRUE]
       ELSE [@ EXCEPT !.pc = "get_done", !.usedMsk = msk,
                      !.ret = Decode(msk, thr[t].r[1], thr[t].r[2])]]
  /\ UNCHANGED <<msk, lockOwner, busy, lastSps, devSps, wfailed>>

(* the caller takes the result; the locals of the call are gone *)
Return(t) ==
  /\ thr[t].pc \in {"set_done", "get_done"}
  /\ thr' = [thr EXCEPT ![t] = IdleRec]
  /\ UNCHANGED <<msk, lockOwner, busy, lastSps, devSps, wfailed>>

Step(t, A, H, L) ==
  \/ \E a \in A : SetEnter(t, a)
  \/ SetLock(t)
  \/ SetWriteBegin(t)
  \/ SetWriteOk(t)
  \/ SetWriteFail(t)
  \/ SetUnlock(t)
  \/ GetLock(t)
  \/ GetReadBegin(t)
  \/ \E b0 \in H, b1 \in L : GetReadOk(t, b0, b1)
  \/ GetReadFail(t)
  \/ GetUnlock(t)
  \/ GetDecode(t)
  \/ Return(t)

(* one caller, full argument and byte ranges *)
Next == Step(1, SetArgs, Byte, LowBytes)
Spec == Init /\ [][Next]_vars

(* two callers on the same handle and bus *)
NextConc == \E t \in Threads : Step(t, ConcArgs, ConcHigh, ConcLow)
SpecConc == Init /\ [][NextConc]_vars

(* ---------------------------------------------------------------------- *)
(* Reference values, written with arithmetic only                          *)
(* ---------------------------------------------------------------------- *)
RefGain(g) == IF g = 2 THEN 1 ELSE IF g = 4 THEN 2 ELSE IF g = 8 THEN 3 ELSE 0
RefSps(s) == IF s % 4 = 3 THEN 2 ELSE s % 4
RefCmd(a) == (a.rdy % 2) * 128 + (a.ch % 4) * 32 + (a.cmode % 2) * 16
             + RefSps(a.sps) * 4 + RefGain(a.pga)
RefMask(s) == IF s % 4 = 0 THEN 7 ELSE IF s % 4 = 1 THEN 31 ELSE 127
Bits(m) == IF m = 7 THEN 12 ELSE IF m = 31 THEN 14 ELSE 16
Word(r) == r[1] * 256 + r[2]
TwosComp(n, w) ==
  LET v == w % (2 ^ n) IN IF v < 2 ^ (n - 1) THEN v ELSE v - 2 ^ n
SignFromBit7(n, r) ==
  (Word(r) % (2 ^ (n - 1))) - (IF r[1] >= 128 THEN 2 ^ (n - 1) ELSE 0)
SignExtended(n, r) ==
  LET top == Word(r) \div (2 ^ (n - 1)) IN top = 0 \/ top = 2 ^ (17 - n) - 1
SetPcs == {"set_lock", "set_write", "set_writing", "set_unlock", "set_done"}
Returned(t) == thr[t].pc = "get_done" /\ ~thr[t].err

(* ---------------------------------------------------------------------- *)
(* Properties                                                              *)
(* ---------------------------------------------------------------------- *)

(* C1: the byte set() hands to the bus write and the byte it returns are   *)
(* the same, and equal the reference encoding ready*128 + channel*32 +     *)
(* mode*16 + s*4 + g of the normalised arguments.                          *)
C1_CommandByte ==
  \A t \in Threads :
    /\ thr[t].wrote # None => thr[t].wrote = RefCmd(thr[t].args)
    /\ thr[t].pc = "set_done" =>
         thr[t].ret = thr[t].wrote /\ thr[t].ret = RefCmd(thr[t].args)
C1_Witness ==
  \E t \in Threads :
    /\ thr[t].pc = "set_done"
    /\ thr[t].args = [cmode |-> 1, rdy |-> 0, ch |-> 2, sps |-> 1, pga |-> 4]
    /\ thr[t].wrote = 86
    /\ thr[t].ret = 86

(* C2 as stated: sample rates 0, 1, 2 select 0x07, 0x1F, 0x7F and every    *)
(* other sample_rate input selects 0x7F.                                   *)
C2_Original ==
  \A t \in Threads :
    thr[t].pc \in SetPcs =>
      msk = IF thr[t].args.sps = 0 THEN 7
            ELSE IF thr[t].args.sps = 1 THEN 31 ELSE 127

(* C2 amended: the mask is selected by the low two bits of the sample_rate *)
(* input: 0x07 for 0, 0x1F for 1, 0x7F for 2 and for 3.                    *)
C2_MaskByLowBits ==
  \A t \in Threads :
    thr[t].pc \in SetPcs => msk = RefMask(thr[t].args.sps)
C2_Witness ==
  \E t \in Threads :
    thr[t].pc = "set_done" /\ thr[t].args.sps = 4 /\ msk = 7

(* C3 as stated: get_raw_data() returns the two's-complement value over n  *)
(* bits of the word b0*256+b1, for every pair of received bytes.           *)
C3_Original ==
  \A t \in Threads :
    Returned(t) =>
      thr[t].ret = TwosComp(Bits(thr[t].usedMsk), Word(thr[t].r))

(* C3 amended: the magnitude is the low n-1 bits of the word and the sign  *)
(* is bit 7 of b0; this is the two's-complement value over n bits whenever *)
(* bits n-1..15 of the word are all equal (a proper sign extension).       *)
C3_SignFromBit7 ==
  \A t \in Threads :
    Returned(t) =>
      LET n == Bits(thr[t].usedMsk) IN
        /\ thr[t].usedMsk \in {7, 31, 127}
        /\ thr[t].ret = SignFromBit7(n, thr[t].r)
        /\ SignExtended(n, thr[t].r) => thr[t].ret = TwosComp(n, Word(thr[t].r))
C3_Witness ==
  \E t \in Threads :
    /\ Returned(t)
    /\ thr[t].usedMsk = 7
    /\ thr[t].r = <<248, 0>>
    /\ thr[t].ret = -2048

(* C4: whatever two bytes the read delivers, the returned value lies in    *)
(* the signed range of the last configured sample rate.                    *)
C4_InRange ==
  \A t \in Threads :
    Returned(t) =>
      /\ lastSps = 0 => thr[t].ret \in -2048 .. 2047
      /\ lastSps = 1 => thr[t].ret \in -8192 .. 8191
      /\ lastSps = 2 => thr[t].ret \in -32768 .. 32767
C4_Witness ==
  \E t \in Threads :
    /\ Returned(t)
    /\ lastSps = 0
    /\ thr[t].r = <<136, 255>>
    /\ thr[t].ret = -1793

(* C5: with a single caller, get_raw_data() decodes with the mask of the   *)
(* most recent set() call, or with the construction default 0x07 when      *)
(* set() was never called.                                                 *)
C5_MaskOfLastSet ==
  \A t \in Threads :
    Returned(t) =>
      LET m == IF lastSps = None THEN 7 ELSE RefMask(lastSps) IN
        /\ thr[t].usedMsk = m
        /\ thr[t].ret = SignFromBit7(Bits(m), thr[t].r)
C5_Witness ==
  \E t \in Threads :
    /\ Returned(t)
    /\ lastSps = 0
    /\ devSps = 2
    /\ thr[t].usedMsk = 7
    /\ thr[t].r = <<127, 255>>
    /\ thr[t].ret = 2047

(* C6: self.msk is always one of 0x07, 0x1F, 0x7F.                         *)
C6_MaskValid == msk \in {7, 31, 127}
C6_Witness ==
  \E t \in Threads :
    thr[t].pc = "set_done" /\ thr[t].failed /\ thr[t].args.sps = 3 /\ msk = 127

(* C7: a bus transaction only runs while its caller holds the bus lock, no *)
(* two transactions overlap, a call locks once and performs one            *)
(* transaction, and a caller that has finished (or not started) a call     *)
(* does not hold the lock, also after a failed write or read.              *)
C7_BusExclusive ==
  /\ Cardinality(busy) <= 1
  /\ \A t \in busy : lockOwner = t
  /\ \A t \in Threads :
       /\ thr[t].nlock <= 1 /\ thr[t].ntx <= 1
       /\ thr[t].pc \in {"idle", "set_lock", "get_decode"} => lockOwner # t
       /\ thr[t].pc \in {"set_done", "get_done"} =>
            lockOwner # t /\ thr[t].nlock = 1 /\ thr[t].ntx = 1
C7_Witness ==
  /\ thr[1].pc = "get_done"
  /\ thr[1].failed
  /\ thr[2].pc = "set_writing"
  /\ busy = {2}

(* C8: a failed write in set() is swallowed: no error reaches the caller,  *)
(* the lock is released, the command byte is returned as on success and    *)
(* self.msk holds the mask of the requested sample rate, stored before the *)
(* write was attempted.                                                    *)
C8_WriteFailureSwallowed ==
  \A t \in Threads :
    /\ thr[t].pc \in {"set_lock", "set_write", "set_writing"} =>
         msk = RefMask(thr[t].args.sps)
    /\ thr[t].pc = "set_done" /\ thr[t].failed =>
         /\ ~thr[t].err
         /\ lockOwner # t
         /\ thr[t].ret = RefCmd(thr[t].args)
         /\ msk = RefMask(thr[t].args.sps)
C8_Witness ==
  \E t \in Threads :
    /\ thr[t].pc = "set_done"
    /\ thr[t].failed
    /\ thr[t].args.sps = 1
    /\ msk = 31
    /\ devSps = 0

(* C9: a failed read in get_raw_data() is swallowed: the lock is released, *)
(* decoding proceeds and the call finishes without an error reaching the   *)
(* caller, with self.msk unchanged.                                        *)
C9_ReadFailureSwallowed ==
  \A t \in Threads :
    thr[t].pc = "get_done" /\ thr[t].failed =>
      /\ ~thr[t].err
      /\ lockOwner # t
      /\ msk = IF lastSps = None THEN 7 ELSE RefMask(lastSps)

(* C10: when no write has failed and no set() call is in progress,         *)
(* self.msk is the mask of the sample-rate field of the last command byte  *)
(* written to the bus, for every interleaving of two callers.              *)
C10_MaskMatchesDevice ==
  (/\ ~wfailed
   /\ devSps # None
   /\ \A t \in Threads : thr[t].pc \notin SetPcs)
  => msk = MaskOf(devSps)

====
